---- MODULE Spec2Model ----
(***************************************************************************)
(* Model of the agentic-layer ADK integration (src/adk/agenticlayer):      *)
(*   - startup: to_a2a / to_starlette.lifespan / AgentFactory.load_agent   *)
(*   - serving: TokenCapturingA2aAgentExecutor._prepare_session and the    *)
(*     header providers handed to McpToolset                               *)
(*   - token_context: the task-local external token                        *)
(***************************************************************************)
EXTENDS Integers, Sequences, FiniteSets, TLC

(***************************************************************************)
(* Bounds of the model.                                                    *)
(***************************************************************************)
MaxSubAgents == 2
MaxTools == 2
MaxRetryTotal == 2
MaxServed == 2
MaxRuns == 2
MaxOperations == 3
MaxRestarts == 1
MaxEntries == 2
MaxApplies == 2

None == "None"

(***************************************************************************)
(* Configuration descriptors (SubAgent, McpTool) as the tests build them.  *)
(* `up` is the environment: whether the remote endpoint is reachable.      *)
(***************************************************************************)
InteractionType == {"TRANSFER", "TOOL_CALL"}

SubAgentName(i) == IF i = 1 THEN "sub_agent_1" ELSE IF i = 2 THEN "sub_agent_2" ELSE "sub_agent_n"

McpToolName(i) ==
    IF i = 1 THEN "server1" ELSE IF i = 2 THEN "server2" ELSE IF i = 3 THEN "server3" ELSE "server_n"

\* propagate_headers of an McpTool is `list[str] | None`: is_none tells which
NoPropagateHeaders == [is_none |-> TRUE, list |-> <<>>]

PropagateHeaders(list) == [is_none |-> FALSE, list |-> list]

PropagateHeadersChoices == {NoPropagateHeaders, PropagateHeaders(<<"X-API-Key">>)}

SubAgentConfigs ==
    UNION {[1..n -> [interaction_type : InteractionType]] : n \in 0..MaxSubAgents}

McpToolConfigs ==
    UNION {[1..n -> [propagate_headers : PropagateHeadersChoices, up : BOOLEAN]]
             : n \in 0..MaxTools}

\* the tools a tool server lists when asked (McpToolset.get_tools); a server
\* that is not reachable lists none
McpServerTools(tool) ==
    IF tool.up
      THEN << [name |-> "get_customer", description |-> "Retrieves customer information"],
              [name |-> "update_customer", description |-> "Updates customer records"] >>
      ELSE <<>>

\* the agent handed to to_a2a (tests: create_agent)
InitialAgent ==
    [instruction |-> <<"You are a test agent.">>, sub_agents |-> <<>>, tools |-> <<>>]

(***************************************************************************)
(* Requests, headers and sessions.                                         *)
(***************************************************************************)
\* two requests in flight at the same time
Requests == {"A", "B"}

\* params.message.contextId: the ADK session a request addresses
ContextIds == {"ctx-1", "ctx-2"}

EXTERNAL_TOKEN_SESSION_KEY == "EXTERNAL_TOKEN_SESSION_KEY"

HTTP_HEADERS_SESSION_KEY == "http_headers"

\* str.lower() on the header names that occur
Lower(n) ==
    CASE n \in {"X-External-Token", "x-external-token", "X-EXTERNAL-TOKEN",
                 "X-External-token"}
           -> "x-external-token"
      [] n \in {"X-API-Key", "x-api-key"} -> "x-api-key"
      [] n \in {"Authorization", "authorization"} -> "authorization"
      [] n \in {"X-Other-Header", "x-other-header"} -> "x-other-header"
      [] OTHER -> n

EmptyDict == [k \in {} |-> ""]

\* dict.get(key): None when the key is missing
Get(d, k) == IF k \in DOMAIN d THEN d[k] ELSE None

\* Python truthiness of `str | None`
Truthy(v) == v # None /\ v # ""

\* Python `a or b`
PyOr(a, b) == IF Truthy(a) THEN a ELSE b

\* the values of `str | None` a token takes
TokenValues == {"token-1", "token-2", "", None}

\* the inbound header mappings a request arrives with
InboundHeaders ==
    { EmptyDict,
      "X-External-Token" :> "token-1",
      "x-external-token" :> "token-2",
      "X-EXTERNAL-TOKEN" :> "token-2",
      "X-External-Token" :> "",
      "X-External-token" :> "token-1",
      ("X-External-Token" :> "token-1") @@ ("X-Other-Header" :> "other")
         @@ ("x-api-key" :> "key-1"),
      ("X-API-Key" :> "key-2") @@ ("authorization" :> "bearer") }

\* context.call_context is None, or "headers" is not in call_context.state
NoCallContext == [has_headers |-> FALSE, headers |-> EmptyDict]

CallContexts ==
    {NoCallContext} \cup {[has_headers |-> TRUE, headers |-> h] : h \in InboundHeaders}

IdleRequest ==
    [pc |-> "idle", call_context |-> NoCallContext, context_id |-> None]

NewSession == [state |-> EmptyDict, events |-> <<>>]

\* ReadonlyContext: None, or a read-only view of the session of the invocation
NoneContext == [is_none |-> TRUE, state |-> EmptyDict, events |-> <<>>]

NoCall == [request |-> None, tool |-> 0, context |-> NoneContext, headers |-> EmptyDict]

\* the tool servers of the serving scenarios: two allow-lists, a legacy one
\* and one with the empty allow-list
ServingTools ==
    << [propagate_headers |-> PropagateHeaders(<<"X-API-Key">>), up |-> TRUE],
       [propagate_headers |-> PropagateHeaders(<<"Authorization", "X-External-Token">>),
        up |-> TRUE],
       [propagate_headers |-> NoPropagateHeaders, up |-> TRUE],
       [propagate_headers |-> PropagateHeaders(<<>>), up |-> TRUE] >>

\* MCPSessionManager._sessions is keyed by a session key (derived from the
\* headers of the call)
SessionKeys == {"key-1", "key-2"}

\* no session cached under a key; a cached session has an id > 0. aclose:
\* the streams of the session have an aclose() method (the memory object
\* streams of the MCP client do), else only close()
NoSession == [id |-> 0, read_closed |-> FALSE, write_closed |-> FALSE, aclose |-> TRUE]

\* no exception
NoException == [type |-> None, attempt |-> 0]

\* the exception raised by the n-th run of the wrapped function
McpError(n) == [type |-> "McpError", attempt |-> n]

\* an exception raised while a stream is closed or the session cache is walked
CloseError == [type |-> "CloseError", attempt |-> 0]

\* the toolset before its first operation: decorator not patched, nothing
\* cached, no session known to the server
\* original_saved: _original_retry_on_errors is not None; decorator: the
\* value of mcp_session_manager.retry_on_errors; the decorated method of
\* McpToolset is `retries` layers of the original decorator around func, with
\* the invalidating wrapper around them when `patched`
InitMcp ==
    [pc |-> "idle", patched |-> FALSE,
     original_saved |-> FALSE, decorator |-> "original", retries |-> 1, applies |-> 0,
     sessions |-> [k \in SessionKeys |-> NoSession],
     server |-> {}, next_id |-> 1, key |-> None, used |-> <<>>,
     attempt |-> 0, error |-> NoException, raised |-> NoException,
     close_raised |-> {}, walk_raised |-> FALSE,
     operations |-> 0, restarts |-> 0]

\* no exception / no value returned by a parse function
NoError == [type |-> None, message |-> <<>>]

NoneReturned == [type |-> "none", items |-> <<>>]

\* no config text has been handed to a parse function
IdleConfig ==
    [pc |-> "idle", function |-> None, text |-> <<>>, error |-> NoError,
     returned |-> NoneReturned, network_calls |-> 0]

\* _MAX_BODY_SIZE = 100 * 1024
MAX_BODY_SIZE == 100 * 1024

\* a body is modelled by its length in bytes and the kind of its bytes: all
\* ASCII, or all invalid as UTF-8
NoBody == [len |-> 0, kind |-> "ascii"]

BodyLengths == {0, 1, MAX_BODY_SIZE - 1, MAX_BODY_SIZE, MAX_BODY_SIZE + 1, 2 * MAX_BODY_SIZE}

Bodies == [len : BodyLengths, kind : {"ascii", "invalid"}]

\* a span without attributes
NoAttribute == [attribute |-> None,
                value |-> [content_len |-> 0, kind |-> "ascii", marked |-> FALSE]]

NoHookCall ==
    [hook |-> None, scope_type |-> None, message_type |-> None, has_body |-> FALSE,
     body |-> NoBody, content_type |-> "", capture |-> FALSE]

\* otel.py has been imported (otel._capture_http_bodies is False), otel_starlette
\* has not; starlette_flag is the name _capture_http_bodies of otel_starlette
InitOtel ==
    [capture_http_bodies |-> FALSE, starlette_imported |-> FALSE,
     starlette_flag |-> FALSE, call |-> NoHookCall, span |-> NoAttribute]

VARIABLES
    pc,             \* position of the lifespan coroutine
    sub_agents,     \* to_a2a argument: sub-agent descriptors
    tools,          \* to_a2a argument: tool descriptors
    retry_total,    \* Retry(total=...) given to AgentFactory
    idx,            \* load_sub_agents: index of the descriptor being resolved
    attempts,       \* GET attempts made per sub-agent descriptor
    agents,         \* load_sub_agents local: RemoteA2aAgents (transfer)
    agent_tools,    \* load_sub_agents local: AgentTools (tool_call)
    mcp_tools,      \* load_agent local: result of load_tools
    agent,          \* the LlmAgent being configured
    routes_attached,\* a2a_app.add_routes_to_app(app) has run
    startup_error,  \* exception that left the lifespan, or None
    served,         \* RPC requests routed to the A2A handler
    requests,       \* per in-flight request: position, inbound headers, contextId
    sessions,       \* InMemorySessionService: contextId -> session (state, events)
    last_call,      \* the latest header-provider call: who, which toolset, result
    external_token_var, \* token_context._external_token: its value in each task's context
    card_fetches,   \* agent cards returned by resolver.get_agent_card(), per descriptor
    toolset_closes, \* close() calls made on each McpToolset of load_tools
    runs,           \* load_agent runs made on the agent (lifespan entries)
    mcp,            \* an McpToolset under the patched retry_on_errors decorator
    last_set,       \* per task: the value of its latest set_external_token call
    config,         \* a run of parse_sub_agents / parse_tools on a config text
    otel            \* the otel modules: capture flags, and the latest hook call

startup_vars == <<pc, sub_agents, tools, retry_total, idx, attempts, agents,
                  agent_tools, mcp_tools, agent, routes_attached, startup_error>>

serving_vars == <<requests, sessions, last_call, external_token_var>>

lifecycle_vars == <<card_fetches, toolset_closes, runs>>

unit_vars == <<last_set, config, otel>>

vars == <<startup_vars, served, serving_vars, lifecycle_vars, mcp, unit_vars>>

Init ==
    /\ pc = "start"
    /\ sub_agents \in SubAgentConfigs
    /\ tools \in McpToolConfigs
    /\ retry_total \in 0..MaxRetryTotal
    /\ idx = 1
    /\ attempts = [i \in DOMAIN sub_agents |-> 0]
    /\ agents = <<>>
    /\ agent_tools = <<>>
    /\ mcp_tools = <<>>
    /\ agent = InitialAgent
    /\ routes_attached = FALSE
    /\ startup_error = None
    /\ served = 0
    /\ requests = [r \in Requests |-> IdleRequest]
    /\ sessions = [c \in ContextIds |-> NewSession]
    /\ last_call = NoCall
    /\ external_token_var = [r \in Requests |-> None]
    /\ card_fetches = [i \in DOMAIN sub_agents |-> 0]
    /\ toolset_closes = [i \in DOMAIN tools |-> 0]
    /\ runs = 1
    /\ mcp = InitMcp
    /\ last_set = [r \in Requests |-> None]
    /\ config = IdleConfig
    /\ otel = InitOtel

(***************************************************************************)
(* lifespan: `a2a_app = await a2a_starlette()` enters a2a_app_creator,     *)
(* which awaits load_agent, which awaits load_sub_agents.                  *)
(***************************************************************************)
\* variant: the A2A routes are added when the app is built, not after load_agent
LifespanStart_routes_first ==
    /\ pc = "start"
    /\ pc' = "fetching_agents"
    /\ routes_attached' = TRUE
    /\ UNCHANGED <<sub_agents, tools, retry_total, idx, attempts, agents, agent_tools,
                   mcp_tools, agent, startup_error, served, serving_vars, lifecycle_vars, mcp, unit_vars>>

LifespanStart ==
    /\ pc = "start"
    /\ pc' = "fetching_agents"
    /\ UNCHANGED <<sub_agents, tools, retry_total, idx, attempts, agents, agent_tools,
                   mcp_tools, agent, routes_attached, startup_error, served, serving_vars, lifecycle_vars, mcp, unit_vars>>

\* RemoteA2aAgent(name=sub_agent.name, ...) with the card's description
RemoteA2aAgent(i) ==
    [name |-> SubAgentName(i), description |-> "Mock agent"]

\* variant: each resolved sub-agent is attached to the agent at once
FetchAgentCardOk_attach_at_once ==
    /\ pc = "fetching_agents"
    /\ idx \in DOMAIN sub_agents
    /\ attempts' = [attempts EXCEPT ![idx] = @ + 1]
    /\ IF sub_agents[idx].interaction_type = "TOOL_CALL"
         THEN /\ agent_tools' = Append(agent_tools, RemoteA2aAgent(idx))
              /\ agent' = [agent EXCEPT !.tools = Append(@, RemoteA2aAgent(idx))]
              /\ UNCHANGED agents
         ELSE /\ agents' = Append(agents, RemoteA2aAgent(idx))
              /\ agent' = [agent EXCEPT !.sub_agents = Append(@, RemoteA2aAgent(idx))]
              /\ UNCHANGED agent_tools
    /\ idx' = idx + 1
    /\ card_fetches' = [card_fetches EXCEPT ![idx] = @ + 1]
    /\ UNCHANGED <<pc, sub_agents, tools, retry_total, mcp_tools,
                   routes_attached, startup_error, served, serving_vars,
                   toolset_closes, runs, mcp, unit_vars>>

\* variant: the two branches on interaction_type are exchanged
FetchAgentCardOk_branches_exchanged ==
    /\ pc = "fetching_agents"
    /\ idx \in DOMAIN sub_agents
    /\ attempts' = [attempts EXCEPT ![idx] = @ + 1]
    /\ IF sub_agents[idx].interaction_type = "TOOL_CALL"
         THEN /\ agents' = Append(agents, RemoteA2aAgent(idx))
              /\ UNCHANGED agent_tools
         ELSE /\ agent_tools' = Append(agent_tools, RemoteA2aAgent(idx))
              /\ UNCHANGED agents
    /\ idx' = idx + 1
    /\ card_fetches' = [card_fetches EXCEPT ![idx] = @ + 1]
    /\ UNCHANGED <<pc, sub_agents, tools, retry_total, mcp_tools, agent,
                   routes_attached, startup_error, served, serving_vars,
                   toolset_closes, runs, mcp, unit_vars>>

\* one GET of the agent card answered 200: the loop body completes
FetchAgentCardOk ==
    /\ pc = "fetching_agents"
    /\ idx \in DOMAIN sub_agents
    /\ attempts' = [attempts EXCEPT ![idx] = @ + 1]
    /\ IF sub_agents[idx].interaction_type = "TOOL_CALL"
         THEN /\ agent_tools' = Append(agent_tools, RemoteA2aAgent(idx))
              /\ UNCHANGED agents
         ELSE /\ agents' = Append(agents, RemoteA2aAgent(idx))
              /\ UNCHANGED agent_tools
    /\ idx' = idx + 1
    /\ card_fetches' = [card_fetches EXCEPT ![idx] = @ + 1]
    /\ UNCHANGED <<pc, sub_agents, tools, retry_total, mcp_tools, agent,
                   routes_attached, startup_error, served, serving_vars,
                   toolset_closes, runs, mcp, unit_vars>>

\* variant: `total` is taken as the number of attempts, not of retries
FetchAgentCardError_total_as_attempts ==
    /\ pc = "fetching_agents"
    /\ idx \in DOMAIN sub_agents
    /\ attempts' = [attempts EXCEPT ![idx] = @ + 1]
    /\ IF attempts[idx] + 1 >= retry_total
         THEN /\ pc' = "failed"
              /\ startup_error' = "A2AClientHTTPError"
         ELSE UNCHANGED <<pc, startup_error>>
    /\ UNCHANGED <<sub_agents, tools, retry_total, idx, agents, agent_tools,
                   mcp_tools, agent, routes_attached, served, serving_vars, lifecycle_vars, mcp, unit_vars>>

\* variant: a descriptor whose fetch failed is skipped and the loop goes on
FetchAgentCardError_skips_descriptor ==
    /\ pc = "fetching_agents"
    /\ idx \in DOMAIN sub_agents
    /\ attempts' = [attempts EXCEPT ![idx] = @ + 1]
    /\ IF attempts[idx] + 1 > retry_total
         THEN idx' = idx + 1
         ELSE UNCHANGED idx
    /\ UNCHANGED <<pc, startup_error, sub_agents, tools, retry_total, agents, agent_tools,
                   mcp_tools, agent, routes_attached, served, serving_vars, lifecycle_vars, mcp, unit_vars>>

\* one GET of the agent card ended in a connection error: RetryTransport
\* retries while the budget lasts, then the error leaves load_sub_agents
FetchAgentCardError ==
    /\ pc = "fetching_agents"
    /\ idx \in DOMAIN sub_agents
    /\ attempts' = [attempts EXCEPT ![idx] = @ + 1]
    /\ IF attempts[idx] + 1 > retry_total
         THEN /\ pc' = "failed"
              /\ startup_error' = "A2AClientHTTPError"
         ELSE UNCHANGED <<pc, startup_error>>
    /\ UNCHANGED <<sub_agents, tools, retry_total, idx, agents, agent_tools,
                   mcp_tools, agent, routes_attached, served, serving_vars, lifecycle_vars, mcp, unit_vars>>

(***************************************************************************)
(* load_tools (agent.py 176-207): synchronous, one McpToolset per          *)
(* descriptor; the provider is chosen on `propagate_headers is not None`.  *)
(* No request is sent to the tool server here.                             *)
(***************************************************************************)
\* variant: the provider is chosen on the truthiness of propagate_headers
HeaderProviderFor_on_truthiness(tool) ==
    IF ~tool.propagate_headers.is_none /\ tool.propagate_headers.list # <<>>
      THEN [kind |-> "_create_header_provider",
            propagate_headers |-> tool.propagate_headers.list]
      ELSE [kind |-> "_get_mcp_headers_from_session", propagate_headers |-> <<>>]

HeaderProviderFor(tool) ==
    IF ~tool.propagate_headers.is_none
      THEN [kind |-> "_create_header_provider",
            propagate_headers |-> tool.propagate_headers.list]
      ELSE [kind |-> "_get_mcp_headers_from_session", propagate_headers |-> <<>>]

McpToolset(i, tool) ==
    [type |-> "McpToolset", name |-> McpToolName(i),
     header_provider |-> HeaderProviderFor(tool)]

load_tools(mcp_tool_list) ==
    [i \in DOMAIN mcp_tool_list |-> McpToolset(i, mcp_tool_list[i])]

AgentTool(a) ==
    [type |-> "AgentTool", name |-> a.name,
     header_provider |-> [kind |-> None, propagate_headers |-> <<>>]]

\* variant: `return agents, tools` sits inside the for loop
LoadSubAgentsReturn_inside_loop ==
    /\ pc = "fetching_agents"
    /\ idx > 1 \/ idx \notin DOMAIN sub_agents
    /\ pc' = "fetching_tools"
    /\ UNCHANGED <<sub_agents, tools, retry_total, idx, attempts, agents, agent_tools,
                   mcp_tools, agent, routes_attached, startup_error, served,
                   serving_vars, lifecycle_vars, mcp, unit_vars>>

\* the for loop of load_sub_agents is exhausted: `return agents, tools`
LoadSubAgentsReturn ==
    /\ pc = "fetching_agents"
    /\ idx \notin DOMAIN sub_agents
    /\ pc' = "fetching_tools"
    /\ UNCHANGED <<sub_agents, tools, retry_total, idx, attempts, agents, agent_tools,
                   mcp_tools, agent, routes_attached, startup_error, served,
                   serving_vars, lifecycle_vars, mcp, unit_vars>>

\* load_sub_agents returned: load_agent calls load_tools
LoadTools ==
    /\ pc = "fetching_tools"
    /\ mcp_tools' = load_tools(tools)
    /\ pc' = "merging"
    /\ UNCHANGED <<sub_agents, tools, retry_total, idx, attempts, agents, agent_tools,
                   agent, routes_attached, startup_error, served, serving_vars, lifecycle_vars, mcp, unit_vars>>

\* Text is a sequence of string pieces; concatenation of text is \o.
\* "\n".join([f"- '{t.name}': {t.description}" for t in ts])
RECURSIVE AgentToolLines(_)
AgentToolLines(ts) ==
    IF ts = <<>> THEN <<>>
    ELSE LET line == <<"- '", Head(ts).name, "': ", Head(ts).description>>
         IN  IF Len(ts) = 1 THEN line
             ELSE line \o <<"\n">> \o AgentToolLines(Tail(ts))

AgentToolInstructions(ts) ==
    <<"\n\nFollowing agents are available as tools:\n">>
      \o AgentToolLines(ts)
      \o <<"\nYou can use them by calling the tool with the agent name.\n">>

\* load_agent lines 126-140: instruction, sub_agents and tools of the agent
MergedAgent(a, as, ats, mts) ==
    [instruction |-> IF ats # <<>> THEN a.instruction \o AgentToolInstructions(ats)
                                   ELSE a.instruction,
     sub_agents  |-> a.sub_agents \o as,
     tools       |-> a.tools \o [i \in DOMAIN ats |-> AgentTool(ats[i])] \o mts]

Merge ==
    /\ pc = "merging"
    /\ agent' = MergedAgent(agent, agents, agent_tools, mcp_tools)
    /\ pc' = "loaded"
    /\ UNCHANGED <<sub_agents, tools, retry_total, idx, attempts, agents, agent_tools,
                   mcp_tools, routes_attached, startup_error, served, serving_vars, lifecycle_vars, mcp, unit_vars>>

\* create_a2a_app, then lifespan: a2a_app.add_routes_to_app(app); yield
AddRoutes ==
    /\ pc = "loaded"
    /\ routes_attached' = TRUE
    /\ pc' = "serving"
    /\ UNCHANGED <<sub_agents, tools, retry_total, idx, attempts, agents, agent_tools,
                   mcp_tools, agent, startup_error, served, serving_vars, lifecycle_vars, mcp, unit_vars>>

\* variant: the agent cards are resolved again for each request
ServeRequest_refetches_cards ==
    /\ routes_attached
    /\ pc # "stopped"
    /\ startup_error = None
    /\ served < MaxServed
    /\ served' = served + 1
    /\ attempts' = [i \in DOMAIN attempts |-> attempts[i] + 1]
    /\ card_fetches' = [i \in DOMAIN card_fetches |-> card_fetches[i] + 1]
    /\ UNCHANGED <<pc, sub_agents, tools, retry_total, idx, agents,
                   agent_tools, mcp_tools, agent, routes_attached, startup_error,
                   serving_vars, toolset_closes, runs, mcp, unit_vars>>

\* Starlette routes an RPC request only through routes attached to the app
ServeRequest ==
    /\ routes_attached
    /\ pc # "stopped"
    /\ startup_error = None
    /\ served < MaxServed
    /\ served' = served + 1
    /\ UNCHANGED <<pc, sub_agents, tools, retry_total, idx, attempts, agents,
                   agent_tools, mcp_tools, agent, routes_attached, startup_error,
                   serving_vars, lifecycle_vars, mcp, unit_vars>>

\* shutdown: the lifespan resumes after its `yield`, where it has no statement
\* left; no McpToolset is closed
Shutdown ==
    /\ pc = "serving"
    /\ pc' = "stopped"
    /\ UNCHANGED <<sub_agents, tools, retry_total, idx, attempts, agents, agent_tools,
                   mcp_tools, agent, routes_attached, startup_error, served,
                   serving_vars, lifecycle_vars, mcp, unit_vars>>

\* the lifespan of the same app is entered again: a2a_app_creator calls
\* load_agent on the agent object it closed over, with the same descriptors;
\* the locals of load_agent and load_sub_agents are fresh
LifespanAgain ==
    /\ pc \in {"stopped", "failed"}
    /\ runs < MaxRuns
    /\ runs' = runs + 1
    /\ pc' = "fetching_agents"
    /\ idx' = 1
    /\ attempts' = [i \in DOMAIN sub_agents |-> 0]
    /\ card_fetches' = [i \in DOMAIN sub_agents |-> 0]
    /\ agents' = <<>>
    /\ agent_tools' = <<>>
    /\ mcp_tools' = <<>>
    /\ startup_error' = None
    /\ UNCHANGED <<sub_agents, tools, retry_total, agent, routes_attached, served,
                   serving_vars, toolset_closes, mcp, unit_vars>>

(***************************************************************************)
(* Header providers (agent.py 26-100); readonly_context.state is the        *)
(* session state mapping.                                                  *)
(***************************************************************************)
\* variant: the header is named after the session key instead of "X-External-Token"
get_mcp_headers_from_session_session_key_name(readonly_context) ==
    IF ~readonly_context.is_none /\ DOMAIN readonly_context.state # {}
      THEN LET external_token == Get(readonly_context.state, EXTERNAL_TOKEN_SESSION_KEY)
           IN  IF Truthy(external_token)
                 THEN EXTERNAL_TOKEN_SESSION_KEY :> external_token
                 ELSE EmptyDict
      ELSE EmptyDict

get_mcp_headers_from_session(readonly_context) ==
    IF ~readonly_context.is_none /\ DOMAIN readonly_context.state # {}
      THEN LET external_token == Get(readonly_context.state, EXTERNAL_TOKEN_SESSION_KEY)
           IN  IF Truthy(external_token)
                 THEN "X-External-Token" :> external_token
                 ELSE EmptyDict
      ELSE EmptyDict

\* all_headers is an ordered dict: a sequence of [k, v] items with distinct keys.
\* {k.lower(): (k, v) for k, v in all_headers.items()} keeps the last item per
\* lowercase key.
create_header_provider(propagate_headers, readonly_context) ==
    IF readonly_context.is_none \/ DOMAIN readonly_context.state = {}
      THEN EmptyDict
      ELSE LET all_headers ==
                 IF HTTP_HEADERS_SESSION_KEY \in DOMAIN readonly_context.state
                   THEN readonly_context.state[HTTP_HEADERS_SESSION_KEY]
                   ELSE <<>>
               Items(l) == {j \in DOMAIN all_headers : Lower(all_headers[j].k) = l}
               Last(l) == CHOOSE j \in Items(l) : \A i \in Items(l) : i <= j
               names == {propagate_headers[i] : i \in
                           {i \in DOMAIN propagate_headers :
                              Items(Lower(propagate_headers[i])) # {}}}
           IN  IF all_headers = <<>>
                 THEN EmptyDict
                 ELSE [header_name \in names |-> all_headers[Last(Lower(header_name))].v]

\* McpToolset calls its header_provider(readonly_context) before a tool request
CallHeaderProvider(header_provider, readonly_context) ==
    IF header_provider.kind = "_create_header_provider"
      THEN create_header_provider(header_provider.propagate_headers, readonly_context)
      ELSE get_mcp_headers_from_session(readonly_context)

(***************************************************************************)
(* Serving a request: DefaultRequestHandler runs the executor in a task    *)
(* per request; TokenCapturingA2aAgentExecutor._prepare_session runs       *)
(* before the runner starts the agent turn. The tasks of the requests      *)
(* interleave at their awaits: between _prepare_session and each tool call *)
(* of one request, steps of the other request may run. A header provider   *)
(* reads the state of the session the request addresses.                   *)
(***************************************************************************)
Arrive(r, call_context, context_id) ==
    /\ routes_attached
    /\ requests[r].pc = "idle"
    /\ requests' = [requests EXCEPT ![r] =
           [pc |-> "prepare", call_context |-> call_context, context_id |-> context_id]]
    /\ UNCHANGED <<startup_vars, lifecycle_vars, mcp, unit_vars, served, sessions, last_call, external_token_var>>

\* session_service.append_event: the state_delta is merged into session.state
AppendEvent(session, event) ==
    [state  |-> [k \in DOMAIN session.state \cup DOMAIN event.state_delta |->
                   IF k \in DOMAIN event.state_delta THEN event.state_delta[k]
                                                     ELSE session.state[k]],
     events |-> Append(session.events, event)]

\* headers.get("x-external-token") or headers.get("X-External-Token")
\*   or headers.get("X-EXTERNAL-TOKEN")
ExternalTokenOf(headers) ==
    PyOr(PyOr(Get(headers, "x-external-token"), Get(headers, "X-External-Token")),
         Get(headers, "X-EXTERNAL-TOKEN"))

\* variant: the append_event coroutine is never awaited, the session is returned
\* without the capture having run
PrepareSession_append_not_awaited(r) ==
    /\ requests[r].pc = "prepare"
    /\ requests' = [requests EXCEPT ![r].pc = "running"]
    /\ UNCHANGED <<startup_vars, lifecycle_vars, mcp, unit_vars, served, sessions, last_call, external_token_var>>

\* variant: the event is appended whether or not a token was found
PrepareSession_always_appends(r) ==
    LET context_id == requests[r].context_id
        call_context == requests[r].call_context
        external_token == ExternalTokenOf(call_context.headers)
        event == [author |-> "system", id |-> r,
                  state_delta |-> EXTERNAL_TOKEN_SESSION_KEY :> external_token]
    IN  /\ requests[r].pc = "prepare"
        /\ sessions' = [sessions EXCEPT ![context_id] = AppendEvent(@, event)]
        /\ requests' = [requests EXCEPT ![r].pc = "running"]
        /\ UNCHANGED <<startup_vars, lifecycle_vars, mcp, unit_vars, served, last_call, external_token_var>>

\* _prepare_session (agent_to_a2a.py 48-97); `id` stands for the Event's unique id
PrepareSession(r) ==
    LET context_id == requests[r].context_id
        call_context == requests[r].call_context
        external_token == ExternalTokenOf(call_context.headers)
        event == [author |-> "system", id |-> r,
                  state_delta |-> EXTERNAL_TOKEN_SESSION_KEY :> external_token]
    IN  /\ requests[r].pc = "prepare"
        /\ IF call_context.has_headers /\ Truthy(external_token)
             THEN sessions' = [sessions EXCEPT ![context_id] = AppendEvent(@, event)]
             ELSE UNCHANGED sessions
        /\ requests' = [requests EXCEPT ![r].pc = "running"]
        /\ UNCHANGED <<startup_vars, lifecycle_vars, mcp, unit_vars, served, last_call, external_token_var>>

ReadonlyContext(r) ==
    [is_none |-> FALSE,
     state   |-> sessions[requests[r].context_id].state,
     events  |-> sessions[requests[r].context_id].events]

\* the agent turn of request r invokes a tool of toolset k
ToolCall(r, k) ==
    /\ requests[r].pc = "running"
    /\ k \in DOMAIN agent.tools
    /\ agent.tools[k].type = "McpToolset"
    /\ last_call' = [request |-> r, tool |-> k, context |-> ReadonlyContext(r),
                     headers |-> CallHeaderProvider(agent.tools[k].header_provider,
                                                    ReadonlyContext(r))]
    /\ UNCHANGED <<startup_vars, lifecycle_vars, mcp, unit_vars, served, requests, sessions, external_token_var>>

Finish(r) ==
    /\ requests[r].pc = "running"
    /\ requests' = [requests EXCEPT ![r].pc = "done"]
    /\ UNCHANGED <<startup_vars, lifecycle_vars, mcp, unit_vars, served, sessions, last_call, external_token_var>>

(***************************************************************************)
(* token_context.py: _external_token is a ContextVar (default None); each  *)
(* request is handled in its own asyncio task, which has its own context.  *)
(***************************************************************************)
\* variant: one module-level variable shared by all tasks
set_external_token_shared_by_tasks(ctxvar, task, token) ==
    [t \in DOMAIN ctxvar |-> token]

set_external_token(ctxvar, task, token) == [ctxvar EXCEPT ![task] = token]

get_external_token(ctxvar, task) == ctxvar[task]

get_mcp_headers(ctxvar, task) ==
    LET token == get_external_token(ctxvar, task)
    IN  IF Truthy(token) THEN "X-External-Token" :> token ELSE EmptyDict

\* the task of request r stores its inbound token, or clears the variable
SetExternalToken(r, token) ==
    /\ requests[r].pc = "running"
    /\ token \in {ExternalTokenOf(requests[r].call_context.headers), None}
    /\ external_token_var' = set_external_token(external_token_var, r, token)
    /\ last_set' = [last_set EXCEPT ![r] = token]
    /\ UNCHANGED <<startup_vars, lifecycle_vars, mcp, config, otel, served, requests, sessions, last_call>>

\* the task of request r asks token_context for the outbound headers
GetMcpHeaders(r) ==
    /\ requests[r].pc = "running"
    /\ last_call' = [request |-> r, tool |-> 0, context |-> NoneContext,
                     headers |-> get_mcp_headers(external_token_var, r)]
    /\ UNCHANGED <<startup_vars, lifecycle_vars, mcp, unit_vars, served, requests, sessions, external_token_var>>

(***************************************************************************)
(* mcp_session_patch.py: an operation of McpToolset (a method decorated     *)
(* with retry_on_errors) on a toolset whose MCPSessionManager caches        *)
(* sessions. The patched decorator is wrapper(original decorator(func)):    *)
(* line 51 applies the original decorator first, lines 53-120 wrap the      *)
(* result. The original decorator retries func once on an error.            *)
(***************************************************************************)
\* _is_session_disconnected(): looks at the local streams only
is_session_disconnected(session) == session.read_closed \/ session.write_closed

\* lines 75-111 for one cached session. Streams with aclose(): the read
\* stream is closed with aclose(); for the write stream
\* `stream._write_stream.aclose()` is evaluated on the write stream itself,
\* which has no attribute _write_stream: the AttributeError is caught by the
\* inner except and logged, the write stream stays open. Streams with close()
\* only: both are closed.
InvalidateSession(session) ==
    IF session.id = 0 THEN session
    ELSE IF session.aclose THEN [session EXCEPT !.read_closed = TRUE]
    ELSE [session EXCEPT !.read_closed = TRUE, !.write_closed = TRUE]

\* apply_mcp_session_patch (125-159): when no original is saved, saves it,
\* replaces the decorator of the module and re-decorates the method of
\* McpToolset with _patched_retry_on_errors(attr.__wrapped__), which is
\* wrapper(original(attr.__wrapped__)); attr.__wrapped__ is the method without
\* its outermost layer. A call while an original is saved only logs a warning.
ApplyMcpSessionPatch ==
    /\ mcp.pc = "idle"
    /\ ~mcp.original_saved
    /\ mcp.applies < MaxApplies
    /\ mcp' = [mcp EXCEPT !.original_saved = TRUE, !.decorator = "patched",
                          !.patched = TRUE,
                          !.retries = IF mcp.patched THEN @ + 1 ELSE @,
                          !.applies = @ + 1]
    /\ UNCHANGED <<startup_vars, lifecycle_vars, served, serving_vars, unit_vars>>

\* remove_mcp_session_patch (162-180): restores the decorator of the module
\* and forgets the saved original; the method of McpToolset is not touched
RemoveMcpSessionPatch ==
    /\ mcp.pc = "idle"
    /\ mcp.original_saved
    /\ mcp' = [mcp EXCEPT !.original_saved = FALSE, !.decorator = "original"]
    /\ UNCHANGED <<startup_vars, lifecycle_vars, served, serving_vars, unit_vars>>

\* a caller invokes a decorated method; k is the session key of the call
McpOperation(k) ==
    /\ mcp.pc \in {"idle", "returned", "raised"}
    /\ mcp.operations < MaxOperations
    /\ mcp' = [mcp EXCEPT !.pc = "first", !.key = k, !.used = <<>>,
                          !.attempt = 1, !.error = NoException,
                          !.raised = NoException,
                          !.close_raised = {}, !.walk_raised = FALSE,
                          !.operations = @ + 1]
    /\ UNCHANGED <<startup_vars, lifecycle_vars, served, serving_vars, unit_vars>>

\* one run of func inside the original decorator: create_session() returns the
\* cached session unless it is disconnected, else opens a fresh one; the call
\* fails when the server does not know the session, and may fail otherwise.
\* Each layer of the original decorator catches an error of its first run and
\* runs its function again; the error of the last run leaves the layers and
\* arrives in the except block of the patched wrapper (line 57), if there.
McpAttempt(ok, aclose) ==
    LET k == mcp.key
        cached == mcp.sessions[k]
        reuse == cached.id # 0 /\ ~is_session_disconnected(cached)
        session == IF reuse THEN cached
                            ELSE [id |-> mcp.next_id, read_closed |-> FALSE,
                                  write_closed |-> FALSE, aclose |-> aclose]
        server == IF reuse THEN mcp.server ELSE mcp.server \cup {session.id}
        success == session.id \in server /\ ok
    IN  /\ mcp.pc \in {"first", "retry"}
        /\ reuse => aclose
        /\ mcp' = [mcp EXCEPT
                     !.sessions = [@ EXCEPT ![k] = session],
                     !.server = server,
                     !.next_id = IF reuse THEN @ ELSE @ + 1,
                     !.used = Append(@, [id |-> session.id, cached |-> reuse]),
                     !.attempt = IF success \/ mcp.attempt = 2 ^ mcp.retries
                                   THEN @ ELSE @ + 1,
                     !.error = IF success THEN NoException ELSE McpError(mcp.attempt),
                     !.raised = IF ~success /\ mcp.attempt = 2 ^ mcp.retries
                                     /\ ~mcp.patched
                                  THEN McpError(mcp.attempt) ELSE NoException,
                     !.pc = IF success THEN "returned"
                            ELSE IF mcp.attempt < 2 ^ mcp.retries THEN "retry"
                            ELSE IF mcp.patched THEN "invalidating"
                            ELSE "raised"]
        /\ UNCHANGED <<startup_vars, lifecycle_vars, served, serving_vars, unit_vars>>

\* variant: an error raised while a stream is closed or the cache is walked
\* leaves the wrapper in place of the error of the operation
McpInvalidate_close_error_propagates(close_raises, walk_raises) ==
    /\ mcp.pc = "invalidating"
    /\ close_raises \subseteq {k \in SessionKeys : mcp.sessions[k].id # 0}
    /\ walk_raises => close_raises = {}
    /\ mcp' = [mcp EXCEPT
                 !.sessions = IF walk_raises THEN @
                              ELSE [k \in SessionKeys |->
                                      IF k \in close_raises THEN mcp.sessions[k]
                                      ELSE InvalidateSession(mcp.sessions[k])],
                 !.close_raised = close_raises,
                 !.walk_raised = walk_raises,
                 !.raised = IF walk_raises \/ close_raises # {} THEN CloseError
                                                                ELSE mcp.error,
                 !.pc = "raised"]
    /\ UNCHANGED <<startup_vars, lifecycle_vars, served, serving_vars, unit_vars>>

\* the except block of the patched wrapper (lines 57-120): the streams of all
\* cached sessions are force-closed, then the exception is raised again.
\* close_raises: the sessions for which closing the read stream itself raises
\* (caught at line 110, the session is left as it is); walk_raises: reading
\* the cache raises (caught at line 112, no session is reached).
McpInvalidate(close_raises, walk_raises) ==
    /\ mcp.pc = "invalidating"
    /\ close_raises \subseteq {k \in SessionKeys : mcp.sessions[k].id # 0}
    /\ walk_raises => close_raises = {}
    /\ mcp' = [mcp EXCEPT
                 !.sessions = IF walk_raises THEN @
                              ELSE [k \in SessionKeys |->
                                      IF k \in close_raises THEN mcp.sessions[k]
                                      ELSE InvalidateSession(mcp.sessions[k])],
                 !.close_raised = close_raises,
                 !.walk_raised = walk_raises,
                 !.raised = mcp.error,
                 !.pc = "raised"]
    /\ UNCHANGED <<startup_vars, lifecycle_vars, served, serving_vars, unit_vars>>

\* the MCP server restarts and loses all session state; the client-side
\* streams stay open
McpServerRestart ==
    /\ mcp.restarts < MaxRestarts
    /\ mcp' = [mcp EXCEPT !.server = {}, !.restarts = @ + 1]
    /\ UNCHANGED <<startup_vars, lifecycle_vars, served, serving_vars, unit_vars>>

NextMcp ==
    \/ ApplyMcpSessionPatch
    \/ RemoveMcpSessionPatch
    \/ \E k \in SessionKeys : McpOperation(k)
    \/ \E ok \in BOOLEAN, aclose \in BOOLEAN : McpAttempt(ok, aclose)
    \/ \E close_raises \in SUBSET SessionKeys, walk_raises \in BOOLEAN :
          McpInvalidate(close_raises, walk_raises)
    \/ McpServerRestart

(***************************************************************************)
(* config.py: parse_sub_agents and parse_tools read a JSON text from the   *)
(* environment. A text is modelled by its items between the braces: each    *)
(* item is `"name": {...}` with the keys it gives (url None = no "url"     *)
(* key, interaction_type None = no "interaction_type" key, timeout 0 = no  *)
(* "timeout" key), or is not well-formed JSON.                             *)
(***************************************************************************)
ConfigNames == {"a", "b"}

ConfigItems ==
    [name : ConfigNames, url : {None, "http://host/"},
     interaction_type : {None, "transfer", "tool_call"}, timeout : {0, 60},
     wellformed : {TRUE}]
    \cup {[name |-> "a", url |-> None, interaction_type |-> None, timeout |-> 0,
           wellformed |-> FALSE]}

ConfigTexts == UNION {[1..n -> ConfigItems] : n \in 0..MaxEntries}

\* dict[name] = item: a key seen before keeps its position and takes the new value
DictSet(dict, item) ==
    IF \E i \in DOMAIN dict : dict[i].name = item.name
      THEN [i \in DOMAIN dict |-> IF dict[i].name = item.name THEN item ELSE dict[i]]
      ELSE Append(dict, item)

RECURSIVE JsonObject(_)
JsonObject(text) ==
    IF text = <<>> THEN <<>>
    ELSE DictSet(JsonObject(SubSeq(text, 1, Len(text) - 1)), text[Len(text)])

\* json.loads: raises JSONDecodeError unless every item is well-formed
json_loads(text) ==
    IF \E i \in DOMAIN text : ~text[i].wellformed
      THEN [ok |-> FALSE, value |-> <<>>]
      ELSE [ok |-> TRUE, value |-> JsonObject(text)]

\* RemoteA2aAgent(name=agent_name, agent_card=config["url"]): the card is
\* resolved lazily, the constructor sends nothing
ConfigRemoteA2aAgent(item) ==
    [type |-> "RemoteA2aAgent", name |-> item.name, agent_card |-> item.url]

ConfigAgentTool(item) ==
    [type |-> "AgentTool", agent |-> ConfigRemoteA2aAgent(item)]

\* McpToolset(connection_params=StreamableHTTPConnectionParams(url=config["url"]))
ConfigMcpToolset(item) == [type |-> "McpToolset", url |-> item.url]

\* config.get("interaction_type", "tool_call")
InteractionTypeOf(item) ==
    IF item.interaction_type = None THEN "tool_call" ELSE item.interaction_type

RECURSIVE SelectAgents(_, _)
SelectAgents(dict, as_tool) ==
    IF dict = <<>> THEN <<>>
    ELSE LET item == dict[Len(dict)]
             rest == SelectAgents(SubSeq(dict, 1, Len(dict) - 1), as_tool)
         IN  IF (InteractionTypeOf(item) = "tool_call") = as_tool
               THEN Append(rest, IF as_tool THEN ConfigAgentTool(item)
                                            ELSE ConfigRemoteA2aAgent(item))
               ELSE rest

Raised(type, message) ==
    [pc |-> "raised", error |-> [type |-> type, message |-> message],
     returned |-> NoneReturned]

Returned(value) == [pc |-> "returned", error |-> NoError, returned |-> value]

\* variant: an entry without "url" is left out instead of being an error
parse_sub_agents_skips_missing_url(text) ==
    LET agents_map == json_loads(text)
        HasUrl(item) == item.url # None
        with_url == SelectSeq(agents_map.value, HasUrl)
    IN  IF ~agents_map.ok
          THEN Raised("ValueError", <<"Warning: ", "Invalid JSON in SUB_AGENTS",
                                      " environment variable: ">>)
          ELSE Returned([type |-> "tuple",
                         items |-> <<SelectAgents(with_url, FALSE),
                                     SelectAgents(with_url, TRUE)>>])

\* parse_sub_agents (config.py 17-47): returns the tuple (sub_agents, tools)
parse_sub_agents(text) ==
    LET agents_map == json_loads(text)
    IN  IF ~agents_map.ok
          THEN Raised("ValueError", <<"Warning: ", "Invalid JSON in SUB_AGENTS",
                                      " environment variable: ">>)
          ELSE IF \E i \in DOMAIN agents_map.value : agents_map.value[i].url = None
            THEN Raised("ValueError", <<"Missing 'url' for agent">>)
            ELSE Returned([type |-> "tuple",
                           items |-> <<SelectAgents(agents_map.value, FALSE),
                                       SelectAgents(agents_map.value, TRUE)>>])

\* parse_tools (config.py 50-77): returns a list of McpToolsets
parse_tools(text) ==
    LET tools_map == json_loads(text)
    IN  IF ~tools_map.ok
          THEN Raised("ValueError", <<"Warning: ", "Invalid JSON in AGENT_TOOLS",
                                      " environment variable: ">>)
          ELSE IF \E i \in DOMAIN tools_map.value : tools_map.value[i].url = None
            THEN Raised("ValueError", <<"Missing 'url' for tool">>)
            ELSE Returned([type |-> "list",
                           items |-> [i \in DOMAIN tools_map.value |->
                                        ConfigMcpToolset(tools_map.value[i])]])

\* a run of one parse function on the config text: neither function sends a
\* request
ParseSubAgents ==
    /\ config.pc = "given"
    /\ config' = parse_sub_agents(config.text) @@
                 [function |-> "parse_sub_agents", text |-> config.text,
                  network_calls |-> config.network_calls]
    /\ UNCHANGED <<startup_vars, lifecycle_vars, served, serving_vars, mcp, last_set, otel>>

ParseTools ==
    /\ config.pc = "given"
    /\ config' = parse_tools(config.text) @@
                 [function |-> "parse_tools", text |-> config.text,
                  network_calls |-> config.network_calls]
    /\ UNCHANGED <<startup_vars, lifecycle_vars, served, serving_vars, mcp, last_set, otel>>

NextConfig == ParseSubAgents \/ ParseTools

\* the process before to_a2a is called: nothing configured, nothing started
BeforeStartup ==
    /\ pc = "start"
    /\ sub_agents = <<>>
    /\ tools = <<>>
    /\ retry_total = 0
    /\ idx = 1
    /\ attempts = <<>>
    /\ agents = <<>>
    /\ agent_tools = <<>>
    /\ mcp_tools = <<>>
    /\ agent = InitialAgent
    /\ routes_attached = FALSE
    /\ startup_error = None
    /\ served = 0
    /\ requests = [r \in Requests |-> IdleRequest]
    /\ sessions = [c \in ContextIds |-> NewSession]
    /\ last_call = NoCall
    /\ external_token_var = [r \in Requests |-> None]
    /\ card_fetches = <<>>
    /\ toolset_closes = <<>>
    /\ runs = 1
    /\ mcp = InitMcp
    /\ last_set = [r \in Requests |-> None]

\* a config text is handed to a parse function
InitConfig ==
    /\ BeforeStartup
    /\ config \in {[IdleConfig EXCEPT !.pc = "given", !.text = text] : text \in ConfigTexts}
    /\ otel = InitOtel

SpecConfig == InitConfig /\ [][NextConfig]_vars

(***************************************************************************)
(* otel.py and otel_starlette.py: the body-capturing hooks of the          *)
(* Starlette instrumentation.                                              *)
(***************************************************************************)
ContentTypes ==
    {"application/json", "text/plain; charset=utf-8", "application/octet-stream", ""}

\* _is_text_content: a text type occurs in the lowercased content type
is_text_content(content_type) ==
    CASE content_type = "application/json" -> TRUE
      [] content_type = "text/plain; charset=utf-8" -> TRUE
      [] OTHER -> FALSE

\* _truncate_body (otel.py 32-43): slices the body to _MAX_BODY_SIZE bytes,
\* decodes them (one character per ASCII byte, one replacement character per
\* invalid byte) and appends the marker when the sliced body has exactly
\* _MAX_BODY_SIZE bytes
truncate_body(body) ==
    LET sliced == IF body.len > MAX_BODY_SIZE
                    THEN [body EXCEPT !.len = MAX_BODY_SIZE] ELSE body
    IN  [content_len |-> sliced.len,
         kind |-> IF sliced.kind = "ascii" THEN "ascii" ELSE "replacement",
         marked |-> sliced.len = MAX_BODY_SIZE]

\* `from .otel import _capture_http_bodies, ...` (otel_starlette.py 11): the
\* name is bound to the value the flag has at import time
ImportOtelStarlette ==
    /\ ~otel.starlette_imported
    /\ otel' = [otel EXCEPT !.starlette_imported = TRUE,
                            !.starlette_flag = otel.capture_http_bodies]
    /\ UNCHANGED <<startup_vars, lifecycle_vars, served, serving_vars, mcp, last_set, config>>

\* setup_otel (otel.py 81-91): assigns the global of otel.py
SetupOtel(capture_http_bodies) ==
    /\ otel' = [otel EXCEPT !.capture_http_bodies = capture_http_bodies]
    /\ UNCHANGED <<startup_vars, lifecycle_vars, served, serving_vars, mcp, last_set, config>>

\* the attribute a hook sets on its span once it got past the flag
BodyAttribute(name, body) == [attribute |-> name, value |-> truncate_body(body)]

\* _starlette_server_request_hook (16-43): reads the name bound at import
StarletteServerRequestHook(scope_type, has_body, body, content_type) ==
    /\ otel.starlette_imported
    /\ ~has_body => body = NoBody
    /\ otel' = [otel EXCEPT
                  !.call = [hook |-> "server_request", scope_type |-> scope_type,
                            message_type |-> None, has_body |-> has_body,
                            body |-> body, content_type |-> content_type,
                            capture |-> otel.capture_http_bodies],
                  !.span = IF /\ otel.starlette_flag
                              /\ scope_type = "http"
                              /\ has_body /\ body.len > 0
                              /\ is_text_content(content_type)
                             THEN BodyAttribute("http.request.body", body)
                             ELSE NoAttribute]
    /\ UNCHANGED <<startup_vars, lifecycle_vars, served, serving_vars, mcp, last_set, config>>

\* _starlette_client_request_hook (46-66): imports the flag anew in each call
StarletteClientRequestHook(message_type, has_body, body, content_type) ==
    /\ otel.starlette_imported
    /\ ~has_body => body = NoBody
    /\ otel' = [otel EXCEPT
                  !.call = [hook |-> "client_request", scope_type |-> "http",
                            message_type |-> message_type, has_body |-> has_body,
                            body |-> body, content_type |-> content_type,
                            capture |-> otel.capture_http_bodies],
                  !.span = IF /\ otel.capture_http_bodies
                              /\ message_type = "http.request"
                              /\ has_body /\ body.len > 0
                              /\ is_text_content(content_type)
                             THEN BodyAttribute("http.request.body", body)
                             ELSE NoAttribute]
    /\ UNCHANGED <<startup_vars, lifecycle_vars, served, serving_vars, mcp, last_set, config>>

\* _starlette_client_response_hook (69-84): reads the name bound at import;
\* the content type is not looked at
StarletteClientResponseHook(message_type, has_body, body) ==
    /\ otel.starlette_imported
    /\ ~has_body => body = NoBody
    /\ otel' = [otel EXCEPT
                  !.call = [hook |-> "client_response", scope_type |-> "http",
                            message_type |-> message_type, has_body |-> has_body,
                            body |-> body, content_type |-> "",
                            capture |-> otel.capture_http_bodies],
                  !.span = IF /\ otel.starlette_flag
                              /\ message_type = "http.response.body"
                              /\ has_body /\ body.len > 0
                             THEN BodyAttribute("http.response.body", body)
                             ELSE NoAttribute]
    /\ UNCHANGED <<startup_vars, lifecycle_vars, served, serving_vars, mcp, last_set, config>>

NextOtel ==
    \/ ImportOtelStarlette
    \/ \E capture_http_bodies \in BOOLEAN : SetupOtel(capture_http_bodies)
    \/ \E scope_type \in {"http", "websocket"}, has_body \in BOOLEAN, body \in Bodies,
          content_type \in ContentTypes :
          StarletteServerRequestHook(scope_type, has_body, body, content_type)
    \/ \E message_type \in {"http.request", "http.disconnect"}, has_body \in BOOLEAN,
          body \in Bodies, content_type \in ContentTypes :
          StarletteClientRequestHook(message_type, has_body, body, content_type)
    \/ \E message_type \in {"http.response.body", "http.response.start"},
          has_body \in BOOLEAN, body \in Bodies :
          StarletteClientResponseHook(message_type, has_body, body)

InitOtelModules ==
    /\ BeforeStartup
    /\ config = IdleConfig
    /\ otel = InitOtel

SpecOtel == InitOtelModules /\ [][NextOtel]_vars

\* state after a successful startup with ServingTools and no sub-agents
InitServing ==
    /\ pc = "serving"
    /\ sub_agents = <<>>
    /\ tools = ServingTools
    /\ retry_total = MaxRetryTotal
    /\ idx = 1
    /\ attempts = <<>>
    /\ agents = <<>>
    /\ agent_tools = <<>>
    /\ mcp_tools = load_tools(ServingTools)
    /\ agent = MergedAgent(InitialAgent, <<>>, <<>>, load_tools(ServingTools))
    /\ routes_attached = TRUE
    /\ startup_error = None
    /\ served = 0
    /\ requests = [r \in Requests |-> IdleRequest]
    /\ sessions = [c \in ContextIds |-> NewSession]
    /\ last_call = NoCall
    /\ external_token_var = [r \in Requests |-> None]
    /\ card_fetches = <<>>
    /\ toolset_closes = [i \in DOMAIN ServingTools |-> 0]
    /\ runs = 1
    /\ mcp = InitMcp
    /\ last_set = [r \in Requests |-> None]
    /\ config = IdleConfig
    /\ otel = InitOtel

NextServing ==
    \/ \E r \in Requests, cc \in CallContexts, c \in ContextIds : Arrive(r, cc, c)
    \/ \E r \in Requests : PrepareSession(r)
    \/ \E r \in Requests, k \in 1..Len(ServingTools) : ToolCall(r, k)
    \/ \E r \in Requests : Finish(r)
    \/ \E r \in Requests, token \in TokenValues : SetExternalToken(r, token)
    \/ \E r \in Requests : GetMcpHeaders(r)

SpecServing == InitServing /\ [][NextServing]_vars

\* the operations of one toolset of the running application
SpecMcp == InitServing /\ [][NextMcp]_vars

(***************************************************************************)
(* Properties.                                                             *)
(***************************************************************************)
InFlight(r) == requests[r].pc \in {"prepare", "running"}

\* the token request r carried inbound (None or "" when it carried none)
InboundToken(r) == ExternalTokenOf(requests[r].call_context.headers)

\* the values a header mapping carries
Values(headers) == {headers[n] : n \in DOMAIN headers}

\* C1: credential isolation. While two requests a and b with distinct tokens are
\* in flight, a header-provider read made on behalf of a (through the task-local
\* store or through the session-state store) carries a's token and never b's,
\* also when a and b address the same session.
C1_CredentialIsolation ==
    \A a, b \in Requests :
       ( /\ a # b
         /\ InFlight(a) /\ InFlight(b)
         /\ Truthy(InboundToken(a)) /\ Truthy(InboundToken(b))
         /\ InboundToken(a) # InboundToken(b)
         /\ last_call.request = a )
       => InboundToken(b) \notin Values(last_call.headers)

IsLegacyCall(call) ==
    /\ call.tool \in DOMAIN agent.tools
    /\ agent.tools[call.tool].header_provider.kind = "_get_mcp_headers_from_session"

IsAllowListCall(call) ==
    /\ call.tool \in DOMAIN agent.tools
    /\ agent.tools[call.tool].header_provider.kind = "_create_header_provider"

\* the inbound headers of request r (empty without a call context)
InboundOf(r) ==
    IF requests[r].call_context.has_headers THEN requests[r].call_context.headers
                                            ELSE EmptyDict

\* C2: allow-list filtering. A call to a server with allow-list L made for a
\* request with inbound headers H carries exactly the names n of L that match a
\* key of H case-insensitively, each with the value of such a key.
C2_AllowListFiltering ==
    IsAllowListCall(last_call) =>
      LET L == agent.tools[last_call.tool].header_provider.propagate_headers
          H == InboundOf(last_call.request)
          Matches(n) == {k \in DOMAIN H : Lower(k) = Lower(n)}
      IN  /\ DOMAIN last_call.headers = {L[i] : i \in {j \in DOMAIN L : Matches(L[j]) # {}}}
          /\ \A n \in DOMAIN last_call.headers :
                \E k \in Matches(n) : last_call.headers[n] = H[k]

\* C3: a legacy-mode call made for a request that does not carry the
\* X-External-Token header carries no headers at all, whatever earlier
\* requests did.
C3_NoTokenNoHeader ==
    ( /\ IsLegacyCall(last_call)
      /\ \A k \in DOMAIN InboundOf(last_call.request) : Lower(k) # "x-external-token" )
    => last_call.headers = EmptyDict

\* C8: when a tool of request r's agent turn asks for headers, the session it
\* reads already holds the event by which r's token was captured.
C8_CaptureBeforeToolCall ==
    \A r \in Requests :
       ( /\ last_call.request = r
         /\ last_call.tool \in DOMAIN agent.tools
         /\ requests[r].call_context.has_headers
         /\ Truthy(InboundToken(r)) )
       => \E i \in DOMAIN last_call.context.events :
             /\ last_call.context.events[i].id = r
             /\ last_call.context.events[i].state_delta[EXTERNAL_TOKEN_SESSION_KEY]
                  = InboundToken(r)

C8_Witness ==
    /\ last_call.request = "A"
    /\ IsLegacyCall(last_call)
    /\ InboundToken("A") = "token-1"
    /\ requests["B"].pc = "running"
    /\ requests["B"].context_id = requests["A"].context_id
    /\ last_call.headers # EmptyDict

\* C9: the captured token never appears in the session state the agent reads.
C9_TokenNotInSessionState ==
    \A c \in ContextIds, r \in Requests :
       (requests[r].pc # "idle" /\ Truthy(InboundToken(r)))
       => \A k \in DOMAIN sessions[c].state : sessions[c].state[k] # InboundToken(r)

\* C10: a legacy-mode call that finds a non-empty token t stored carries the
\* single header X-External-Token = t and none of the other inbound headers.
C10_LegacyExactlyOneHeader ==
    ( /\ IsLegacyCall(last_call)
      /\ EXTERNAL_TOKEN_SESSION_KEY \in DOMAIN last_call.context.state
      /\ last_call.context.state[EXTERNAL_TOKEN_SESSION_KEY] # "" )
    => /\ DOMAIN last_call.headers = {"X-External-Token"}
       /\ last_call.headers["X-External-Token"]
            = last_call.context.state[EXTERNAL_TOKEN_SESSION_KEY]
       /\ \A k \in DOMAIN InboundOf(last_call.request) :
             Lower(k) # "x-external-token" => k \notin DOMAIN last_call.headers

C10_Witness ==
    /\ IsLegacyCall(last_call)
    /\ "X-Other-Header" \in DOMAIN InboundOf(last_call.request)
    /\ last_call.headers = ("X-External-Token" :> "token-1")

\* request r carries no X-External-Token header under any casing, or an empty one
CarriesNoToken(r) ==
    \A k \in DOMAIN InboundOf(r) :
       Lower(k) = "x-external-token" => InboundOf(r)[k] = ""

\* C19: _prepare_session of a request that carries no token (no header, an
\* empty value, or no call context) returns normally, appends no event to any
\* session and changes no session state; no _prepare_session changes the
\* inbound request or its headers mapping.
C19_NoTokenRequestUnmodified ==
    [][ \A r \in Requests :
          (requests[r].pc = "prepare" /\ requests'[r].pc # "prepare") =>
             /\ requests'[r].pc = "running"
             /\ requests'[r].call_context = requests[r].call_context
             /\ requests'[r].context_id = requests[r].context_id
             /\ CarriesNoToken(r) => sessions' = sessions
      ]_vars

C19_Witness ==
    /\ requests["A"].pc = "running"
    /\ requests["A"].call_context.has_headers
    /\ InboundOf("A") = ("X-External-Token" :> "")
    /\ requests["B"].pc = "running"
    /\ ~requests["B"].call_context.has_headers
    /\ \A c \in ContextIds : sessions[c] = NewSession

C18_StaleSessionRecovery ==
    ( /\ mcp.patched
      /\ Len(mcp.used) = 2
      /\ mcp.used[1].cached )
    => /\ mcp.used[2].id # mcp.used[1].id
       /\ ~mcp.used[2].cached

\* C21: within one task, get_external_token returns the value of the task's
\* latest set_external_token call, and None when the task never set one;
\* get_mcp_headers returns {} when nothing is set or after a set of None; the
\* session-based provider returns {} for a None context.
C21_TokenStoreContract ==
    /\ \A r \in Requests :
          /\ get_external_token(external_token_var, r) = last_set[r]
          /\ last_set[r] = None => get_mcp_headers(external_token_var, r) = EmptyDict
    /\ get_mcp_headers_from_session(NoneContext) = EmptyDict

\* task A has set its token, read the headers, and cleared the token again,
\* while task B is running
C21_Witness ==
    /\ last_call.request = "A" /\ last_call.tool = 0
    /\ last_call.headers = ("X-External-Token" :> "token-1")
    /\ last_set["A"] = None
    /\ get_mcp_headers(external_token_var, "A") = EmptyDict
    /\ requests["B"].pc = "running"

\* a context whose session state holds a captured token and stored headers
ContextWithStoredHeaders(h) ==
    [is_none |-> FALSE,
     state   |-> (EXTERNAL_TOKEN_SESSION_KEY :> "token-1")
                 @@ (HTTP_HEADERS_SESSION_KEY :> <<[k |-> h, v |-> "token-1"]>>),
     events  |-> <<>>]

\* C29: load_tools selects the legacy provider exactly for the tools whose
\* propagate_headers is None; a tool configured with the empty list gets the
\* allow-list provider, and a call to it carries no header at all, whatever the
\* session holds.
C29_EmptyAllowListForwardsNothing ==
    /\ \A k \in DOMAIN mcp_tools :
          (mcp_tools[k].header_provider.kind = "_get_mcp_headers_from_session")
             <=> tools[k].propagate_headers.is_none
    /\ ( /\ last_call.tool \in DOMAIN tools
         /\ tools[last_call.tool].propagate_headers = PropagateHeaders(<<>>) )
       => last_call.headers = EmptyDict
    /\ \A h \in {"X-External-Token", "x-external-token", "X-API-Key"} :
          CallHeaderProvider(HeaderProviderFor([propagate_headers |-> PropagateHeaders(<<>>),
                                                up |-> TRUE]),
                             ContextWithStoredHeaders(h)) = EmptyDict

\* a tool with the empty allow-list was called for a request whose session
\* holds a captured token
C29_Witness ==
    /\ last_call.tool \in DOMAIN tools
    /\ tools[last_call.tool].propagate_headers = PropagateHeaders(<<>>)
    /\ Get(last_call.context.state, EXTERNAL_TOKEN_SESSION_KEY) = "token-1"
    /\ last_call.headers = EmptyDict

\* the config text is not well-formed JSON
MalformedJson(text) == \E i \in DOMAIN text : ~text[i].wellformed

\* the JSON object of the text has an entry without the key "url"
EntryWithoutUrl(text) ==
    /\ ~MalformedJson(text)
    /\ \E i \in DOMAIN JsonObject(text) : JsonObject(text)[i].url = None

\* C22: on malformed JSON parse_sub_agents and parse_tools raise ValueError
\* with a message containing "Invalid JSON in SUB_AGENTS" / "Invalid JSON in
\* AGENT_TOOLS", and on an entry without "url" they raise; in both cases
\* nothing is returned and no network call has been made.
C22_ConfigErrorsAreFatal ==
    ( /\ config.pc \in {"returned", "raised"}
      /\ MalformedJson(config.text) \/ EntryWithoutUrl(config.text) )
    => /\ config.pc = "raised"
       /\ config.returned = NoneReturned
       /\ config.network_calls = 0
       /\ MalformedJson(config.text) =>
            /\ config.error.type = "ValueError"
            /\ \E k \in DOMAIN config.error.message :
                  config.error.message[k] = IF config.function = "parse_sub_agents"
                                              THEN "Invalid JSON in SUB_AGENTS"
                                              ELSE "Invalid JSON in AGENT_TOOLS"
       /\ EntryWithoutUrl(config.text) => config.error.type = "ValueError"

\* parse_sub_agents met a second entry without "url" after a complete first one
C22_Witness ==
    /\ config.pc = "raised"
    /\ config.function = "parse_sub_agents"
    /\ Len(config.text) = 2
    /\ config.text[1].name = "a" /\ config.text[1].url # None
    /\ config.text[2].name = "b" /\ config.text[2].url = None
    /\ config.text[2].wellformed

\* C23: parse_sub_agents returns a single list with one descriptor per key
\* (name = key, the configured url and interaction_type), parse_tools one
\* descriptor per key (name = key, the configured url, timeout = the configured
\* value or 30); for "{}" both return the empty list.
C23_OneDescriptorPerEntry ==
    config.pc = "returned" =>
      LET entries == JsonObject(config.text)
          items == config.returned.items
      IN  /\ config.returned.type = "list"
          /\ Len(items) = Len(entries)
          /\ \A i \in DOMAIN items :
                IF config.function = "parse_sub_agents"
                  THEN /\ items[i].type = "SubAgent"
                       /\ items[i].name = entries[i].name
                       /\ items[i].url = entries[i].url
                       /\ entries[i].interaction_type # None =>
                            items[i].interaction_type = entries[i].interaction_type
                  ELSE /\ items[i].type = "McpTool"
                       /\ items[i].name = entries[i].name
                       /\ items[i].url = entries[i].url
                       /\ items[i].timeout = IF entries[i].timeout = 0
                                               THEN 30 ELSE entries[i].timeout

\* the except block of the patched wrapper has run in this step, without an
\* error from closing a stream or from walking the cache
InvalidatedCleanly ==
    /\ mcp.pc = "invalidating" /\ mcp'.pc = "raised"
    /\ mcp'.close_raised = {} /\ ~mcp'.walk_raised

\* C24: when a patched operation raises, the wrapper closes the read stream
\* and the write stream of every cached session, so that every session cached
\* before is seen as disconnected afterwards.
C24_BothStreamsClosed ==
    [][InvalidatedCleanly =>
         \A k \in SessionKeys :
            mcp.sessions[k].id # 0 =>
               /\ mcp'.sessions[k].read_closed
               /\ mcp'.sessions[k].write_closed
               /\ is_session_disconnected(mcp'.sessions[k])]_vars

\* C25: after apply_mcp_session_patch and remove_mcp_session_patch the
\* decorator of the module is the original one, no original is saved and the
\* method of McpToolset is as before the patch (one layer of the original
\* decorator, no invalidation); while the patch is applied the method carries
\* the invalidating wrapper exactly once around one layer of the original.
C25_RemoveRestoresOriginal ==
    IF mcp.original_saved
      THEN mcp.decorator = "patched" /\ mcp.patched /\ mcp.retries = 1
      ELSE mcp.decorator = "original" /\ ~mcp.patched /\ mcp.retries = 1

\* C27: the patched wrapper does not change the outcome of the operation: a
\* step in which the operation returns closes no stream of a cached session
\* and raises nothing; a step in which the wrapper is left by an exception
\* raises the exception of the operation's last run, also when closing a
\* stream or walking the cache raised.
C27_OutcomeUnchanged ==
    [][ /\ (mcp.pc # "returned" /\ mcp'.pc = "returned") =>
             /\ mcp'.raised = NoException
             /\ \A k \in SessionKeys :
                   mcp'.sessions[k].id = mcp.sessions[k].id =>
                      mcp'.sessions[k] = mcp.sessions[k]
        /\ (mcp.pc # "raised" /\ mcp'.pc = "raised") =>
             /\ mcp'.raised = mcp'.error
             /\ mcp'.raised.type = "McpError"
             /\ mcp'.raised.attempt = 2 ^ mcp.retries ]_vars

\* a patched operation failed on its last run, closing the read stream of the
\* session under key-1 raised, and the operation's error left the wrapper
C27_Witness ==
    /\ mcp.pc = "raised"
    /\ mcp.patched
    /\ mcp.close_raised = {"key-1"}
    /\ mcp.raised = McpError(2)

\* the latest hook call was given a non-empty body it is meant to record: a
\* cached text body of an http scope, a text body of an http.request message,
\* or the body of an http.response.body message
TextBodyGiven(call) ==
    /\ call.has_body /\ call.body.len > 0
    /\ CASE call.hook = "server_request" ->
               call.scope_type = "http" /\ is_text_content(call.content_type)
         [] call.hook = "client_request" ->
               call.message_type = "http.request" /\ is_text_content(call.content_type)
         [] call.hook = "client_response" -> call.message_type = "http.response.body"
         [] OTHER -> FALSE

\* C26: body logging of the three Starlette hooks follows the flag last
\* passed to setup_otel: with the flag True each hook records the body it is
\* given on its span, with the flag False no hook sets an attribute.
C26_BodyLoggingFollowsFlag ==
    otel.call.hook # None =>
      IF otel.call.capture
        THEN TextBodyGiven(otel.call) =>
               /\ otel.span.attribute =
                    (IF otel.call.hook = "client_response" THEN "http.response.body"
                                                             ELSE "http.request.body")
               /\ otel.span.value = truncate_body(otel.call.body)
        ELSE otel.span = NoAttribute

\* C30: the body content recorded by _truncate_body has at most
\* _MAX_BODY_SIZE bytes, and the truncation marker is appended exactly when
\* the body was longer than _MAX_BODY_SIZE.
C30_MarkerIffTruncated ==
    otel.span.attribute # None =>
      /\ otel.span.value.content_len <= MAX_BODY_SIZE
      /\ otel.span.value.marked <=> (otel.call.body.len > MAX_BODY_SIZE)

\* sub-agent descriptor i has been resolved and is attached to the agent
SubAgentAttached(i) ==
    IF sub_agents[i].interaction_type = "TOOL_CALL"
      THEN \E j \in DOMAIN agent.tools :
              agent.tools[j].type = "AgentTool" /\ agent.tools[j].name = SubAgentName(i)
      ELSE \E j \in DOMAIN agent.sub_agents : agent.sub_agents[j].name = SubAgentName(i)

McpToolAttached(i) ==
    \E j \in DOMAIN agent.tools :
       agent.tools[j].type = "McpToolset" /\ agent.tools[j].name = McpToolName(i)

\* C4: startup barrier. The A2A routes are attached, and a request is served,
\* only after load_agent resolved and attached every sub-agent and tool; after a
\* failed resolution the routes are never attached and no request is served.
C4_StartupBarrier ==
    /\ routes_attached =>
         /\ \A i \in DOMAIN sub_agents : attempts[i] >= 1 /\ SubAgentAttached(i)
         /\ \A i \in DOMAIN tools : McpToolAttached(i)
    /\ served > 0 => routes_attached
    /\ startup_error # None => pc = "failed" /\ ~routes_attached /\ served = 0

C4_Witness ==
    /\ served = MaxServed
    /\ Len(sub_agents) = 2
    /\ Len(tools) >= 1

\* C5: bounded retry. With retry budget n a descriptor whose GET fails every
\* time is tried exactly n + 1 times and then startup fails; no descriptor is
\* ever tried more than n + 1 times.
C5_BoundedRetry ==
    /\ \A i \in DOMAIN attempts : attempts[i] <= retry_total + 1
    /\ (pc = "fetching_agents" /\ idx \in DOMAIN sub_agents) => attempts[idx] <= retry_total
    /\ pc = "failed" =>
         /\ idx \in DOMAIN sub_agents
         /\ attempts[idx] = retry_total + 1
         /\ startup_error # None

C5_Witness ==
    /\ pc = "failed"
    /\ retry_total = 2
    /\ attempts[idx] = 3

\* C6: partial failure is fatal and leaves the agent untouched. When a
\* descriptor fails after its retries, load_agent raises and sub_agents, tools
\* and instruction of the agent are what they were before the call, also when
\* other descriptors had been resolved.
C6_FailureLeavesAgentUntouched ==
    pc = "failed" =>
      /\ startup_error # None
      /\ agent.sub_agents = InitialAgent.sub_agents
      /\ agent.tools = InitialAgent.tools
      /\ agent.instruction = InitialAgent.instruction
      /\ ~routes_attached

C6_Witness ==
    /\ pc = "failed"
    /\ idx = 2
    /\ Len(agents) + Len(agent_tools) = 1

\* C7: when a configured tool server cannot be reached during startup, startup
\* fails with a ConnectionError and no traffic is served.
C7_ToolServerUnavailableFailsStartup ==
    (\E i \in DOMAIN tools : ~tools[i].up) =>
       /\ ~routes_attached
       /\ served = 0
       /\ pc \in {"merging", "loaded", "serving"} => startup_error = "ConnectionError"

\* number of entries of the agent's sub_agents and tools lists that carry the
\* name of sub-agent descriptor i
Registrations(i) ==
    Cardinality({j \in DOMAIN agent.sub_agents :
                   agent.sub_agents[j].name = SubAgentName(i)})
    + Cardinality({j \in DOMAIN agent.tools :
                     /\ agent.tools[j].type = "AgentTool"
                     /\ agent.tools[j].name = SubAgentName(i)})

\* C11: resolving the same sub-agent descriptors again on the same agent (a
\* repeated load_agent run, after a failed or a completed one) does not register
\* a sub-agent twice: each sub-agent name occurs at most once in the agent's
\* sub_agents and tools lists.
C11_NoDuplicateRegistration ==
    \A i \in DOMAIN sub_agents : Registrations(i) <= 1

\* C12: every McpToolset constructed at startup stays open while the
\* application serves and is closed exactly once when the application has shut
\* down: not before the shutdown, and neither zero times nor twice after it.
C12_ClosedExactlyOnceAtShutdown ==
    /\ pc # "stopped" => \A i \in DOMAIN toolset_closes : toolset_closes[i] = 0
    /\ pc = "stopped" => \A i \in DOMAIN mcp_tools : toolset_closes[i] = 1

\* the phase of the resolver invocation
Phase ==
    CASE pc = "start" -> "START"
      [] pc = "fetching_agents" -> "FETCHING_AGENTS"
      [] pc = "fetching_tools" -> "FETCHING_TOOLS"
      [] pc = "merging" -> "MERGING"
      [] pc \in {"loaded", "serving", "stopped"} -> "DONE"
      [] pc = "failed" -> "FAILED"

NextPhases(phase) ==
    CASE phase = "START" -> {"FETCHING_AGENTS"}
      [] phase = "FETCHING_AGENTS" -> {"FETCHING_TOOLS", "FAILED"}
      [] phase = "FETCHING_TOOLS" -> {"MERGING", "FAILED"}
      [] phase = "MERGING" -> {"DONE", "FAILED"}
      [] OTHER -> {}

\* C14: one resolver invocation passes through START, FETCHING_AGENTS,
\* FETCHING_TOOLS, MERGING, DONE in this order and revisits none; every agent
\* card is fetched in FETCHING_AGENTS and all are fetched before a tool is
\* loaded; the agent is changed only by the step from MERGING to DONE; an error
\* ends the run in the failure state, which is never left for DONE.
C14_PhaseOrder ==
    [][ /\ Phase' \in {Phase} \cup NextPhases(Phase)
        /\ (attempts' # attempts \/ agents' # agents \/ agent_tools' # agent_tools)
              => Phase = "FETCHING_AGENTS"
        /\ mcp_tools' # mcp_tools =>
              /\ Phase = "FETCHING_TOOLS"
              /\ Len(agents) + Len(agent_tools) = Len(sub_agents)
        /\ agent' # agent => Phase = "MERGING" /\ Phase' = "DONE"
        /\ startup_error' # None => Phase' = "FAILED"
      ]_vars

C14_Witness ==
    /\ pc = "serving"
    /\ Len(sub_agents) = 2
    /\ Len(mcp_tools) = 2
    /\ Len(agent.sub_agents) + Len(agent.tools) = 4

\* C15: after a successful startup the agent card of every configured
\* sub-agent has been fetched exactly once, and the count is still one after any
\* number of served requests.
C15_FetchedOncePerDescriptor ==
    Phase = "DONE" =>
       \A i \in DOMAIN sub_agents : card_fetches[i] = 1

C15_Witness ==
    /\ pc = "serving"
    /\ served = MaxServed
    /\ Len(sub_agents) = 2
    /\ attempts[1] = 2
    /\ card_fetches = <<1, 1>>

\* number of entries of a list of proxies that carry the name of descriptor i
EntriesNamed(list, i) ==
    Cardinality({j \in DOMAIN list : list[j].name = SubAgentName(i)})

\* C16: when load_sub_agents has returned, every TOOL_CALL descriptor has
\* exactly one entry, under its name, in the agent-tool list and none in the
\* sub-agent list, every other descriptor exactly one in the sub-agent list and
\* none in the agent-tool list, and the two lists together have as many entries
\* as there are descriptors.
C16_PartitionByInteractionType ==
    Phase \in {"FETCHING_TOOLS", "MERGING", "DONE"} =>
       /\ Len(agents) + Len(agent_tools) = Len(sub_agents)
       /\ \A i \in DOMAIN sub_agents :
             IF sub_agents[i].interaction_type = "TOOL_CALL"
               THEN EntriesNamed(agent_tools, i) = 1 /\ EntriesNamed(agents, i) = 0
               ELSE EntriesNamed(agents, i) = 1 /\ EntriesNamed(agent_tools, i) = 0

C16_Witness ==
    /\ pc = "fetching_tools"
    /\ Len(sub_agents) = 2
    /\ sub_agents[1].interaction_type = "TRANSFER"
    /\ sub_agents[2].interaction_type = "TOOL_CALL"
    /\ agents = <<RemoteA2aAgent(1)>>
    /\ agent_tools = <<RemoteA2aAgent(2)>>

\* the tools reported by all configured tool servers, in configuration order
RECURSIVE ReportedTools(_)
ReportedTools(mcp_tool_list) ==
    IF mcp_tool_list = <<>> THEN <<>>
    ELSE McpServerTools(Head(mcp_tool_list)) \o ReportedTools(Tail(mcp_tool_list))

HasPiece(text, piece) == \E k \in DOMAIN text : text[k] = piece

\* number of lines "- '<name>': <description>" of t in a text
LinesOf(text, t) ==
    Cardinality({k \in 1..(Len(text) - 3) :
                   /\ text[k] = "- '"
                   /\ text[k + 1] = t.name
                   /\ text[k + 2] = "': "
                   /\ text[k + 3] = t.description})

\* C17: after a successful load_agent the instruction starts with the original
\* instruction, holds the block "Following agents are available as tools" with
\* one line per tool-call sub-agent iff there is such a sub-agent, and holds the
\* block "Following MCP tools are available" with one line per tool reported by
\* the configured tool servers iff a tool was reported.
C17_InstructionBlocks ==
    Phase = "DONE" =>
       LET text == agent.instruction
           reported == ReportedTools(tools)
       IN  /\ Len(text) >= Len(InitialAgent.instruction)
           /\ SubSeq(text, 1, Len(InitialAgent.instruction)) = InitialAgent.instruction
           /\ HasPiece(text, "\n\nFollowing agents are available as tools:\n")
                 <=> agent_tools # <<>>
           /\ \A j \in DOMAIN agent_tools : LinesOf(text, agent_tools[j]) = 1
           /\ HasPiece(text, "\n\nFollowing MCP tools are available:\n")
                 <=> reported # <<>>
           /\ \A j \in DOMAIN reported :
                 LinesOf(text, reported[j])
                   = Cardinality({k \in DOMAIN reported : reported[k] = reported[j]})

\* the RemoteA2aAgents of the descriptors 1..n of one interaction type, in
\* descriptor order
RECURSIVE ResolvedInOrder(_, _)
ResolvedInOrder(n, interaction_type) ==
    IF n = 0 THEN <<>>
    ELSE IF sub_agents[n].interaction_type = interaction_type
           THEN Append(ResolvedInOrder(n - 1, interaction_type), RemoteA2aAgent(n))
           ELSE ResolvedInOrder(n - 1, interaction_type)

\* C28: load_sub_agents resolves the descriptors one after another in list
\* order: the sub-agent list and the agent-tool list hold the resolved
\* descriptors in descriptor order, every descriptor before the current one has
\* been fetched, and no fetch is issued for a descriptor after the current one;
\* in particular none after a descriptor whose fetch failed.
C28_SequentialInOrder ==
    /\ agents = ResolvedInOrder(idx - 1, "TRANSFER")
    /\ agent_tools = ResolvedInOrder(idx - 1, "TOOL_CALL")
    /\ \A i \in DOMAIN sub_agents :
          /\ i < idx => card_fetches[i] = 1
          /\ i > idx => attempts[i] = 0 /\ card_fetches[i] = 0
    /\ \A k \in DOMAIN sub_agents :
          (attempts[k] = retry_total + 1 /\ card_fetches[k] = 0) =>
             /\ pc = "failed" /\ idx = k
             /\ \A j \in DOMAIN sub_agents : j > k => attempts[j] = 0

\* the fetch for the first of two descriptors failed after one retry
C28_Witness ==
    /\ pc = "failed"
    /\ Len(sub_agents) = 2
    /\ idx = 1
    /\ retry_total = 1
    /\ attempts = <<2, 0>>

Next ==
    \/ LifespanStart
    \/ FetchAgentCardOk
    \/ FetchAgentCardError
    \/ LoadSubAgentsReturn
    \/ LoadTools
    \/ Merge
    \/ AddRoutes
    \/ ServeRequest
    \/ Shutdown

Spec == Init /\ [][Next]_vars

\* the same application object started more than once
NextRerun ==
    \/ Next
    \/ LifespanAgain

SpecRerun == Init /\ [][NextRerun]_vars
====
